---- MODULE Spec2Model ----
(***************************************************************************)
(* Authentication and IP-throttling flow of TravelWallet (src/auth.py,     *)
(* src/models.py, src/main.py): e-mail pre-check with per-address failure  *)
(* counting, one-time login codes, and signed session tokens.              *)
(*                                                                         *)
(* Time is counted in whole minutes and requests arrive on a grid of       *)
(* TickMinutes.  A DateTime column holds a naive timestamp (an integer     *)
(* here, None when NULL); datetime.utcnow() is a                           *)
(* naive value and now_kst() a timezone-aware one, and Python refuses to   *)
(* order a naive against an aware datetime (TypeError).  Exceptions that   *)
(* leave AuthService are turned into a 500 answer by the endpoint.         *)
(***************************************************************************)
EXTENDS Integers, Sequences, FiniteSets, TLC

VARIABLES now, MAX_LOGIN_ATTEMPTS, ip_bans, users, login_tokens,
          session_token, last, jwt, http, inflight, fx, data

vars == <<now, MAX_LOGIN_ATTEMPTS, ip_bans, users, login_tokens,
          session_token, last, jwt, http, inflight, fx, data>>

\* ---------------------------------------------------------------- bounds
MaxTime == 20
TickMinutes == 5
MaxAttemptsCfg == 2
NumCodes == 2
NumAddrs == 2
NumIds == 2
MaxHeaderLen == 3
MaxConcurrent == 2
MaxAdvances == 4
MaxRows == 1
MaxRecords == 1

\* ------------------------------------------------------- configuration
ACCESS_TOKEN_EXPIRE_MINUTES == 15
BAN_DURATION_MINUTES == 10
TELEGRAM_CHAT_ID == "5496782369"
SECRET_KEY == "server-secret"
ALLOWED_EMAIL == <<"M", "e">>

None == -1

Addrs == 1..NumAddrs
FirstAddr == CHOOSE a \in Addrs : \A b \in Addrs : a <= b
\* the values random.randint(100000, 999999) may draw, cut to NumCodes of them
Codes == 100000..(100000 + NumCodes - 1)
FirstCode == CHOOSE c \in Codes : \A d \in Codes : c <= d
\* candidate credentials: the allow-listed one in another case, and a wrong one
Emails == { <<"m", "E">>, <<"m", "x">> }

\* credentials a client may send: the allow-listed one in every case, ones that
\* differ in a letter, in length or by a blank, and the empty one
Credentials ==
  { <<"M", "e">>, <<"m", "E">>, <<"m", "e">>, <<"M", "E">>,
    <<"m", "x">>, <<"M", "X">>, <<"m">>, <<"m", "e", "x">>,
    <<"m", "e", " ">>, <<>> }

\* ------------------------------------------------------------ datetimes
utcnow(t) == [t |-> t, tzinfo |-> FALSE]
now_kst(t) == [t |-> t, tzinfo |-> TRUE]
naive(t) == [t |-> t, tzinfo |-> FALSE]

\* a < b on datetimes: naive against aware raises TypeError
dt_lt(a, b) ==
  IF a.tzinfo # b.tzinfo THEN "TypeError"
  ELSE IF a.t < b.t THEN "True" ELSE "False"

\* (a - b).total_seconds() for datetimes a, b held in whole minutes
total_seconds(a, b) == 60 * (a - b)

\* int(s / d): the quotient cut towards zero
int_div(s, d) == IF s >= 0 THEN s \div d ELSE 0 - ((0 - s) \div d)

\* str.lower()
lower_char(c) ==
  CASE c = "M" -> "m"
    [] c = "E" -> "e"
    [] c = "X" -> "x"
    [] OTHER -> c

\* variant: the comparison is case-sensitive
lower_unchanged(s) == s

lower(s) == [i \in DOMAIN s |-> lower_char(s[i])]

\* the candidate credentials that pass the comparison of verify_email_and_send_code
AllowedSpellings == {e \in Emails : lower(e) = lower(ALLOWED_EMAIL)}

\* ------------------------------------------------------------ client address
\* a header value or host name is a sequence of characters; an absent header
\* (headers.get gives None) or connection is <<>>, a present one <<value>>
StringsOver(chars, n) == UNION { [1..k -> chars] : k \in 0..n }

\* s.split(',')[0]
RECURSIVE first_field(_)
first_field(s) ==
  IF s = <<>> \/ Head(s) = "," THEN <<>>
  ELSE <<Head(s)>> \o first_field(Tail(s))

RECURSIVE lstrip(_)
lstrip(s) == IF s # <<>> /\ Head(s) = " " THEN lstrip(Tail(s)) ELSE s

RECURSIVE rstrip(_)
rstrip(s) ==
  IF s # <<>> /\ s[Len(s)] = " " THEN rstrip(SubSeq(s, 1, Len(s) - 1)) ELSE s

\* s.strip()
strip(s) == rstrip(lstrip(s))

\* the fallback literal "127.0.0.1"
Loopback == <<"1", "2", "7", ".", "0", ".", "0", ".", "1">>

\* variant: the whole X-Forwarded-For value is taken
get_client_ip_whole_header(forwarded_for, real_ip, client) ==
  IF forwarded_for # <<>> /\ forwarded_for[1] # <<>>
  THEN strip(forwarded_for[1])
  ELSE IF real_ip # <<>> /\ real_ip[1] # <<>>
  THEN strip(real_ip[1])
  ELSE IF client # <<>> THEN client[1]
  ELSE Loopback

\* get_client_ip: `if forwarded_for:` and `if real_ip:` are false for None and
\* for the empty string
get_client_ip(forwarded_for, real_ip, client) ==
  IF forwarded_for # <<>> /\ forwarded_for[1] # <<>>
  THEN strip(first_field(forwarded_for[1]))
  ELSE IF real_ip # <<>> /\ real_ip[1] # <<>>
  THEN strip(real_ip[1])
  ELSE IF client # <<>> THEN client[1]
  ELSE Loopback

\* ------------------------------------------------------------ IPBan
\* variant: the ban check never reports a ban
is_banned_always_false(rec, t) == "False"

\* IPBan.is_banned: banned_until and now_kst() < banned_until
is_banned(rec, t) ==
  IF rec.banned_until = None THEN "False"
  ELSE dt_lt(now_kst(t), naive(rec.banned_until))

\* AuthService.check_ip_ban: "banned", "None", or the exception raised
check_ip_ban(bans, ip, t) ==
  IF ip \in DOMAIN bans
  THEN LET b == is_banned(bans[ip], t) IN
       IF b = "TypeError" THEN "TypeError"
       ELSE IF b = "True" THEN "banned" ELSE "None"
  ELSE "None"

\* AuthService.record_failed_attempt: the table after commit and the result
\* (first_attempt, written once and never read, is left out of the record)
record_failed_attempt(bans, ip, t, maxAttempts) ==
  LET rec ==
        IF ip \notin DOMAIN bans
        THEN [failed_attempts |-> 1, banned_until |-> None,
              last_attempt |-> utcnow(t).t]
        ELSE LET inc == bans[ip].failed_attempts + 1 IN
             [failed_attempts |-> inc,
              banned_until |-> IF inc >= maxAttempts
                               THEN utcnow(t).t + BAN_DURATION_MINUTES
                               ELSE bans[ip].banned_until,
              last_attempt |-> utcnow(t).t]
  IN [bans |-> [a \in DOMAIN bans \cup {ip} |-> IF a = ip THEN rec ELSE bans[a]],
      ret |-> rec.failed_attempts >= maxAttempts]

\* variant: a success leaves the record in place
reset_failed_attempts_keep(bans, ip) == bans

\* variant: a success clears the counter but does not lift a ban
reset_failed_attempts_unbanned_only(bans, ip) ==
  [a \in {b \in DOMAIN bans : b # ip \/ bans[b].banned_until # None} |-> bans[a]]

\* variant: a success deletes the records of all addresses
reset_failed_attempts_every_address(bans, ip) == [a \in {} |-> bans[a]]

\* AuthService.reset_failed_attempts
reset_failed_attempts(bans, ip) == [a \in DOMAIN bans \ {ip} |-> bans[a]]

\* ------------------------------------------------------------ User
\* variant: every call inserts a user
create_user_always_new(us, chat_id, t) ==
  [users |-> Append(us, [id |-> Len(us) + 1, telegram_chat_id |-> chat_id,
                         is_active |-> TRUE, created_at |-> utcnow(t).t,
                         last_login_request |-> utcnow(t).t,
                         last_login |-> None]),
   id |-> Len(us) + 1]

\* AuthService.create_user: get-or-create by chat id, stamp last_login_request
create_user(us, chat_id, t) ==
  IF \E i \in DOMAIN us : us[i].telegram_chat_id = chat_id
  THEN LET i == CHOOSE j \in DOMAIN us : us[j].telegram_chat_id = chat_id IN
       [users |-> [us EXCEPT ![i].last_login_request = utcnow(t).t], id |-> us[i].id]
  ELSE [users |-> Append(us, [id |-> Len(us) + 1, telegram_chat_id |-> chat_id,
                              is_active |-> TRUE, created_at |-> utcnow(t).t,
                              last_login_request |-> utcnow(t).t,
                              last_login |-> None]),
        id |-> Len(us) + 1]

\* ------------------------------------------------------------ LoginToken
\* variant: earlier codes are not invalidated
create_login_code_keep_old(toks, user_id, code, t) ==
  IF \E i \in DOMAIN toks : toks[i].token = code
  THEN [exc |-> TRUE, tokens |-> toks]
  ELSE [exc |-> FALSE,
        tokens |-> Append(toks, [id |-> Len(toks) + 1, user_id |-> user_id, token |-> code,
                     expires_at |-> utcnow(t).t + ACCESS_TOKEN_EXPIRE_MINUTES,
                     is_used |-> FALSE, used_at |-> None])]

\* AuthService.create_login_code with the drawn value `code`.  login_tokens.token
\* is UNIQUE (models.py): inserting a stored value fails at commit with
\* IntegrityError and the pending UPDATE is rolled back with it.
create_login_code(toks, user_id, code, t) ==
  LET invalidated == [i \in DOMAIN toks |->
                        IF toks[i].user_id = user_id
                        THEN [toks[i] EXCEPT !.is_used = TRUE] ELSE toks[i]]
  IN IF \E i \in DOMAIN toks : toks[i].token = code
     THEN [exc |-> TRUE, tokens |-> toks]
     ELSE [exc |-> FALSE,
           tokens |-> Append(invalidated,
                    [id |-> Len(toks) + 1, user_id |-> user_id, token |-> code,
                     expires_at |-> utcnow(t).t + ACCESS_TOKEN_EXPIRE_MINUTES,
                     is_used |-> FALSE, used_at |-> None])]

\* variant: expires_at >= now
code_matches_inclusive(rec, code, t) ==
  /\ rec.token = code
  /\ rec.is_used = FALSE
  /\ dt_lt(naive(rec.expires_at), utcnow(t)) = "False"

\* variant: the used flag is not part of the lookup
code_matches_ignore_used(rec, code, t) ==
  /\ rec.token = code
  /\ dt_lt(utcnow(t), naive(rec.expires_at)) = "True"

\* variant: the lookup is by value alone
code_matches_any_stored(rec, code, t) ==
  rec.token = code

\* the WHERE clause of validate_login_code
code_matches(rec, code, t) ==
  /\ rec.token = code
  /\ rec.is_used = FALSE
  /\ dt_lt(utcnow(t), naive(rec.expires_at)) = "True"

\* variant: an accepted code is marked used without a used_at
validate_login_code_no_stamp(toks, us, code, t) ==
  IF ~ \E i \in DOMAIN toks : code_matches(toks[i], code, t)
  THEN [user |-> None, tokens |-> toks, users |-> us]
  ELSE LET i == CHOOSE j \in DOMAIN toks :
                  /\ code_matches(toks[j], code, t)
                  /\ \A k \in DOMAIN toks : code_matches(toks[k], code, t) => j <= k
           uid == toks[i].user_id
       IN [user |-> IF \E u \in DOMAIN us : us[u].id = uid THEN uid ELSE None,
           tokens |-> [toks EXCEPT ![i].is_used = TRUE],
           users |-> [u \in DOMAIN us |->
                        IF us[u].id = uid
                        THEN [us[u] EXCEPT !.last_login = utcnow(t).t] ELSE us[u]]]

\* variant: an accepted code is not marked used
validate_login_code_reusable(toks, us, code, t) ==
  IF ~ \E i \in DOMAIN toks : code_matches(toks[i], code, t)
  THEN [user |-> None, tokens |-> toks, users |-> us]
  ELSE LET i == CHOOSE j \in DOMAIN toks :
                  /\ code_matches(toks[j], code, t)
                  /\ \A k \in DOMAIN toks : code_matches(toks[k], code, t) => j <= k
           uid == toks[i].user_id
       IN [user |-> IF \E u \in DOMAIN us : us[u].id = uid THEN uid ELSE None,
           tokens |-> toks,
           users |-> [u \in DOMAIN us |->
                        IF us[u].id = uid
                        THEN [us[u] EXCEPT !.last_login = utcnow(t).t] ELSE us[u]]]

\* AuthService.validate_login_code: the returned user id (None when empty) and
\* the tables after commit
validate_login_code(toks, us, code, t) ==
  IF ~ \E i \in DOMAIN toks : code_matches(toks[i], code, t)
  THEN [user |-> None, tokens |-> toks, users |-> us]
  ELSE LET i == CHOOSE j \in DOMAIN toks :
                  /\ code_matches(toks[j], code, t)
                  /\ \A k \in DOMAIN toks : code_matches(toks[k], code, t) => j <= k
           uid == toks[i].user_id
       IN [user |-> IF \E u \in DOMAIN us : us[u].id = uid THEN uid ELSE None,
           tokens |-> [toks EXCEPT ![i].is_used = TRUE, ![i].used_at = utcnow(t).t],
           users |-> [u \in DOMAIN us |->
                        IF us[u].id = uid
                        THEN [us[u] EXCEPT !.last_login = utcnow(t).t] ELSE us[u]]]

\* ------------------------------------------------------------ JWT
\* jwt.encode: the claims and an HMAC of them under `key`
jwt_encode(claims, key) == [claims |-> claims, sig |-> <<key, claims>>]

\* jwt.decode: JWTError on a bad signature or when exp < now, else the claims
jwt_decode(token, key, t) ==
  IF token.sig # <<key, token.claims>> THEN "JWTError"
  ELSE IF token.claims.exp < t THEN "JWTError"
  ELSE "claims"

\* an absent expires_delta is <<>>, a timedelta of m minutes is <<m>>;
\* bool(timedelta(0)) is False
truthy(expires_delta) == expires_delta # <<>> /\ expires_delta[1] # 0

\* AuthService.create_access_token({"user_id": user_id}, expires_delta)
create_access_token(user_id, expires_delta, t) ==
  LET expire == IF truthy(expires_delta)
                THEN utcnow(t).t + expires_delta[1]
                ELSE utcnow(t).t + ACCESS_TOKEN_EXPIRE_MINUTES
  IN jwt_encode([user_id |-> user_id, exp |-> expire], SECRET_KEY)

\* variant: only the token of the current session cookie verifies
verify_token_current_cookie_only(token, t) ==
  IF session_token # <<token>> THEN None
  ELSE IF jwt_decode(token, SECRET_KEY, t) = "JWTError" THEN None
  ELSE token.claims.user_id

\* AuthService.verify_token: the payload's user_id, or None
verify_token(token, t) ==
  IF jwt_decode(token, SECRET_KEY, t) = "JWTError" THEN None
  ELSE token.claims.user_id

\* variant: the token's claims are read without verifying it
get_current_user_unverified(credentials, cookie, us, t) ==
  LET token == IF credentials # <<>> THEN credentials
               ELSE IF cookie # <<>> THEN cookie
               ELSE <<>>
  IN IF token = <<>> THEN None
     ELSE LET user_id == token[1].claims.user_id IN
          IF \E u \in DOMAIN us : us[u].id = user_id /\ us[u].is_active
          THEN user_id ELSE None

\* get_current_user: the bearer credentials if the request has any, else the
\* session cookie; the user id the token verifies to if that user exists and
\* is active, else None.  An absent carrier is <<>>, a present one <<token>>.
get_current_user(credentials, cookie, us, t) ==
  LET token == IF credentials # <<>> THEN credentials
               ELSE IF cookie # <<>> THEN cookie
               ELSE <<>>
  IN IF token = <<>> THEN None
     ELSE LET user_id == verify_token(token[1], t) IN
          IF user_id = None \/ user_id = 0 THEN None
          ELSE IF \E u \in DOMAIN us : us[u].id = user_id /\ us[u].is_active
               THEN user_id ELSE None

\* identities and lifetimes a token is issued for: none given, zero, one or
\* two ticks, and one already past
UserIds == 1..NumIds
Deltas == { <<>>, <<0>>, <<TickMinutes>>, <<2 * TickMinutes>>, <<0 - TickMinutes>> }

\* ------------------------------------------------------------ delivery
\* the ways a delivery attempt can go
Deliveries == {"no_bot_token", "delivered", "request_exception", "other_exception"}

\* AuthService.send_login_code_telegram: True without a bot token or when the
\* post succeeds, False on any exception (none escapes)
send_login_code_telegram(delivery) ==
  delivery \in {"no_bot_token", "delivered"}

\* the generator and the Telegram call are reached only on a match
Draws(email, codes) == IF lower(email) = lower(ALLOWED_EMAIL) THEN codes ELSE {0}

DeliveryAttempts(email) ==
  IF lower(email) = lower(ALLOWED_EMAIL) THEN Deliveries ELSE {"none"}

\* ------------------------------------------------------------ state
\* last: the request just handled and its answer (none once time has moved on)
\* prior_attempts / prior_banned_until: the address's ban record as the request
\* found it (0 / None without a record)
NoRequest ==
  [op |-> "none", ip |-> 0, email |-> <<>>, code |-> 0, outcome |-> "none",
   remaining |-> 0, message |-> "none", user |-> None,
   prior_attempts |-> 0, prior_banned_until |-> None]

\* jwt: a session token under test, how it was issued and the last verification
NoJwt ==
  [phase |-> "none", id |-> 0, ttl |-> <<>>, issued_at |-> 0,
   token |-> jwt_encode([user_id |-> 0, exp |-> 0], "none"),
   forged |-> FALSE, result |-> None, verified_at |-> 0]

\* http: the request just answered outside the login flow (none once time
\* has moved on)
NoHttp == [op |-> "none"]

\* inflight: the login requests being handled at the same time, none here
NoInflight == [phase |-> "idle"]

\* fx: the exchange-rate service, not yet constructed
NoFx == [phase |-> "none"]

\* data: what the data endpoints have stored, per kind of record
Kinds == {"trip", "expense", "transport_card", "wallet", "transportation"}
NoData == [k \in Kinds |-> "none"]

Init ==
  /\ now = 0
  /\ MAX_LOGIN_ATTEMPTS \in 1..MaxAttemptsCfg
  /\ ip_bans = <<>>
  /\ users = <<>>
  /\ login_tokens = <<>>
  /\ session_token = <<>>
  /\ last = NoRequest
  /\ jwt = NoJwt
  /\ http = NoHttp
  /\ inflight = NoInflight
  /\ fx = NoFx
  /\ data = NoData

\* ------------------------------------------------------------ operations
\* AuthService.verify_email_and_send_code as called by POST /api/auth/login:
\* the answer and the tables it leaves behind
verify_email_and_send_code(email, ip, code, delivery) ==
  IF lower(email) # lower(ALLOWED_EMAIL)
  THEN LET chk == check_ip_ban(ip_bans, ip, now) IN
       IF chk = "TypeError"
       THEN [outcome |-> "Error500", remaining |-> 0, message |-> "500",
             bans |-> ip_bans, users |-> users, tokens |-> login_tokens]
       ELSE IF chk = "banned"
       THEN [outcome |-> "RateLimited",
             remaining |-> int_div(total_seconds(ip_bans[ip].banned_until,
                                                 utcnow(now).t), 60),
             message |-> "banned",
             bans |-> ip_bans, users |-> users, tokens |-> login_tokens]
       ELSE LET r == record_failed_attempt(ip_bans, ip, now, MAX_LOGIN_ATTEMPTS) IN
            [outcome |-> IF r.ret THEN "TooManyAttempts" ELSE "UnknownCredential",
             remaining |-> 0,
             message |-> IF r.ret THEN "too_many" ELSE "unregistered",
             bans |-> r.bans, users |-> users, tokens |-> login_tokens]
  ELSE LET bans1 == reset_failed_attempts(ip_bans, ip)
           cu == create_user(users, TELEGRAM_CHAT_ID, now)
           cl == create_login_code(login_tokens, cu.id, code, now)
       IN IF cl.exc
          THEN [outcome |-> "Error500", remaining |-> 0, message |-> "500",
                bans |-> bans1, users |-> cu.users, tokens |-> cl.tokens]
          ELSE [outcome |-> "Ok", remaining |-> 0,
                message |-> IF send_login_code_telegram(delivery)
                            THEN "sent" ELSE "generated",
                bans |-> bans1, users |-> cu.users, tokens |-> cl.tokens]

\* POST /api/auth/login from address ip; code is the value the generator
\* draws, delivery the fate of the Telegram call
RequestCode(email, ip, code, delivery) ==
  LET r == verify_email_and_send_code(email, ip, code, delivery)
      matched == lower(email) = lower(ALLOWED_EMAIL)
  IN /\ ip_bans' = r.bans
     /\ users' = r.users
     /\ login_tokens' = r.tokens
     /\ last' = [op |-> "RequestCode", ip |-> ip, email |-> email,
                 code |-> IF matched THEN code ELSE 0,
                 outcome |-> r.outcome, remaining |-> r.remaining,
                 message |-> r.message, user |-> None,
                 prior_attempts |-> IF ip \in DOMAIN ip_bans
                                    THEN ip_bans[ip].failed_attempts ELSE 0,
                 prior_banned_until |-> IF ip \in DOMAIN ip_bans
                                        THEN ip_bans[ip].banned_until ELSE None]
     /\ UNCHANGED <<now, MAX_LOGIN_ATTEMPTS, session_token, jwt, http,
                 inflight, fx, data>>

\* POST /api/auth/logout: the answer deletes the session cookie
Logout ==
  /\ session_token' = <<>>
  /\ last' = [NoRequest EXCEPT !.op = "Logout", !.outcome = "LoggedOut"]
  /\ UNCHANGED <<now, MAX_LOGIN_ATTEMPTS, ip_bans, users, login_tokens, jwt, http,
                 inflight, fx, data>>

\* variant: a refused code counts as a failed attempt of the first address
ValidateCode_counting_failures(code) ==
  LET v == validate_login_code(login_tokens, users, code, now) IN
  /\ login_tokens' = v.tokens
  /\ users' = v.users
  /\ session_token' = IF v.user = None THEN session_token
                      ELSE <<create_access_token(v.user, <<>>, now)>>
  /\ last' = [op |-> "ValidateCode", ip |-> 0, email |-> <<>>, code |-> code,
              outcome |-> IF v.user = None THEN "InvalidOrExpiredCode" ELSE "LoginSuccessful",
              remaining |-> 0, message |-> "none", user |-> v.user,
              prior_attempts |-> 0, prior_banned_until |-> None]
  /\ ip_bans' = IF v.user = None
                THEN record_failed_attempt(ip_bans, FirstAddr, now, MAX_LOGIN_ATTEMPTS).bans
                ELSE ip_bans
  /\ UNCHANGED <<now, MAX_LOGIN_ATTEMPTS, jwt, http,
                 inflight, fx, data>>

\* POST /api/auth/verify
ValidateCode(code) ==
  LET v == validate_login_code(login_tokens, users, code, now) IN
  /\ login_tokens' = v.tokens
  /\ users' = v.users
  /\ session_token' = IF v.user = None THEN session_token
                      ELSE <<create_access_token(v.user, <<>>, now)>>
  /\ last' = [op |-> "ValidateCode", ip |-> 0, email |-> <<>>, code |-> code,
              outcome |-> IF v.user = None THEN "InvalidOrExpiredCode" ELSE "LoginSuccessful",
              remaining |-> 0, message |-> "none", user |-> v.user,
              prior_attempts |-> 0, prior_banned_until |-> None]
  /\ UNCHANGED <<now, MAX_LOGIN_ATTEMPTS, ip_bans, jwt, http,
                 inflight, fx, data>>

\* GET /api/auth/me with the given bearer credentials and session cookie
GetMe(credentials, cookie) ==
  LET current_user == get_current_user(credentials, cookie, users, now) IN
  /\ http' = [op |-> "me", credentials |-> credentials, cookie |-> cookie,
              status |-> IF current_user = None THEN 401 ELSE 200,
              user |-> current_user]
  /\ UNCHANGED <<now, MAX_LOGIN_ATTEMPTS, ip_bans, users, login_tokens,
                 session_token, last, jwt,
                 inflight, fx, data>>

\* require_auth: the current user, or the 401 it raises
require_auth(credentials, cookie, us, t) ==
  LET current_user == get_current_user(credentials, cookie, us, t) IN
  IF current_user = None THEN [status |-> 401, user |-> None]
  ELSE [status |-> 200, user |-> current_user]

\* the methods of the data endpoints that write
Methods == {"POST", "PUT", "DELETE"}

\* POST /api/<kind>, PUT /api/<kind>/{id}, DELETE /api/<kind>/{id} for the one
\* record of a kind the model keeps: Depends(require_auth) is resolved before
\* the body runs; POST stores the record, PUT and DELETE answer 404 when there
\* is none.  At most MaxRecords kinds have a record at a time.
Mutate(kind, method, credentials, cookie) ==
  LET auth == require_auth(credentials, cookie, users, now)
      found == data[kind] # "none"
      status == IF auth.status = 401 THEN 401
                ELSE IF method = "POST" \/ found THEN 200 ELSE 404
  IN
  /\ (auth.status = 200 /\ method = "POST" /\ ~found) =>
        Cardinality({k \in Kinds : data[k] # "none"}) < MaxRecords
  /\ data' = IF status # 200 THEN data
             ELSE [data EXCEPT ![kind] =
                     IF method = "POST" THEN "stored"
                     ELSE IF method = "PUT" THEN "updated" ELSE "none"]
  /\ http' = [op |-> "mutate", kind |-> kind, method |-> method,
              credentials |-> credentials, cookie |-> cookie,
              status |-> status, user |-> auth.user]
  /\ UNCHANGED <<now, MAX_LOGIN_ATTEMPTS, ip_bans, users, login_tokens,
                 session_token, last, jwt, inflight, fx>>

\* the answer of the data endpoint has been sent
Respond ==
  /\ http.op = "mutate"
  /\ http' = NoHttp
  /\ UNCHANGED <<now, MAX_LOGIN_ATTEMPTS, ip_bans, users, login_tokens,
                 session_token, last, jwt, inflight, fx, data>>

\* get_client_ip(request) for a request with the given headers and connection
ResolveAddress(forwarded_for, real_ip, client) ==
  /\ http' = [op |-> "client_ip", forwarded_for |-> forwarded_for,
              real_ip |-> real_ip, client |-> client,
              result |-> get_client_ip(forwarded_for, real_ip, client)]
  /\ UNCHANGED <<now, MAX_LOGIN_ATTEMPTS, ip_bans, users, login_tokens,
                 session_token, last, jwt,
                 inflight, fx, data>>

\* ---- POST /api/auth/login with a wrong credential, statement by statement
\* the statements of request_login_code's body after which it awaits: none,
\* every call in the body is a blocking one, so the event loop of the one
\* server process runs a body to its end before it starts another
AwaitPoints == {}

\* a request whose body has not started; seen is the row record_failed_attempt
\* has read (<<>> before the read and when there is no row)
NoCall ==
  [pc |-> "start", seen |-> <<>>, outcome |-> "none", wrote |-> 0,
   set_ban |-> FALSE, inserted |-> FALSE]

\* MaxConcurrent wrong-credential requests from ip are accepted together
Arrive(ip) ==
  /\ inflight.phase = "idle"
  /\ inflight' = [phase |-> "calls", ip |-> ip, base |-> ip_bans,
                  calls |-> [r \in 1..MaxConcurrent |-> NoCall]]
  /\ UNCHANGED <<now, MAX_LOGIN_ATTEMPTS, ip_bans, users, login_tokens,
                 session_token, last, jwt, http, fx, data>>

\* the event loop can run the body of request r: no other body is between
\* its first statement and its end, unless it waits at an await
Runnable(r) ==
  \A q \in DOMAIN inflight.calls \ {r} :
     inflight.calls[q].pc \in {"start", "done"} \cup AwaitPoints

\* check_ip_ban(db, ip): the query and is_banned()
StepCheck(r) ==
  LET chk == check_ip_ban(ip_bans, inflight.ip, now) IN
  /\ inflight.calls[r].pc = "start"
  /\ inflight' = [inflight EXCEPT !.calls[r] =
        IF chk = "TypeError" THEN [@ EXCEPT !.pc = "done", !.outcome = "Error500"]
        ELSE IF chk = "banned" THEN [@ EXCEPT !.pc = "done", !.outcome = "RateLimited"]
        ELSE [@ EXCEPT !.pc = "checked"]]
  /\ UNCHANGED ip_bans

\* record_failed_attempt: db.query(IPBan).filter(...).first()
StepRead(r) ==
  /\ inflight.calls[r].pc = "checked"
  /\ inflight' = [inflight EXCEPT !.calls[r] =
        [@ EXCEPT !.pc = "read",
                  !.seen = IF inflight.ip \in DOMAIN ip_bans
                           THEN <<ip_bans[inflight.ip]>> ELSE <<>>]]
  /\ UNCHANGED ip_bans

\* record_failed_attempt: the INSERT or UPDATE computed from the row as read,
\* and the commit.  An INSERT for an address that has a row by now adds a
\* second row (ip_address is not unique); first() keeps returning the first.
StepWrite(r) ==
  LET ip == inflight.ip
      seen == inflight.calls[r].seen
      table == IF seen = <<>> THEN <<>> ELSE [a \in {ip} |-> seen[1]]
      w == record_failed_attempt(table, ip, now, MAX_LOGIN_ATTEMPTS)
      rec == w.bans[ip]
  IN
  /\ inflight.calls[r].pc = "read"
  /\ ip_bans' = IF seen = <<>> /\ ip \in DOMAIN ip_bans THEN ip_bans
                ELSE [a \in DOMAIN ip_bans \cup {ip} |->
                        IF a = ip THEN rec ELSE ip_bans[a]]
  /\ inflight' = [inflight EXCEPT !.calls[r] =
        [@ EXCEPT !.pc = "done",
                  !.outcome = IF w.ret THEN "TooManyAttempts" ELSE "UnknownCredential",
                  !.wrote = rec.failed_attempts,
                  !.set_ban = (seen # <<>> /\ rec.banned_until # seen[1].banned_until),
                  !.inserted = (seen = <<>>)]]

\* the next statement of request r
Step(r) ==
  /\ inflight.phase = "calls"
  /\ Runnable(r)
  /\ StepCheck(r) \/ StepRead(r) \/ StepWrite(r)
  /\ UNCHANGED <<now, MAX_LOGIN_ATTEMPTS, users, login_tokens,
                 session_token, last, jwt, http, fx, data>>

\* every answer has been sent
Settle ==
  /\ inflight.phase = "calls"
  /\ \A r \in DOMAIN inflight.calls : inflight.calls[r].pc = "done"
  /\ inflight' = NoInflight
  /\ UNCHANGED <<now, MAX_LOGIN_ATTEMPTS, ip_bans, users, login_tokens,
                 session_token, last, jwt, http, fx, data>>

\* ---- exchange_service.py: ExchangeRateService
\* seconds in a day: timedelta keeps days and seconds apart
DaySeconds == 86400
\* the age below which get_exchange_rates serves the cache
CacheSeconds == 300
\* variant: the whole age
td_seconds_whole(d) == d
\* timedelta.seconds: the seconds field, without the days
td_seconds(d) == d % DaySeconds
\* timedelta.total_seconds()
td_total_seconds(d) == d

\* {} of Python
EmptyDict == [k \in {} |-> 0]
\* os.getenv("KOREA_EXIM_KEY"): unset, empty or set
ApiKeys == {"None", "", "key"}
Digits == <<"0", "1", "2", "3", "4", "5", "6", "7", "8", "9">>
digit(c) == (CHOOSE i \in DOMAIN Digits : Digits[i] = c) - 1
RECURSIVE decimal(_)
decimal(str) ==
  IF str = <<>> THEN 0
  ELSE 10 * decimal(SubSeq(str, 1, Len(str) - 1)) + digit(str[Len(str)])
\* _parse_rate: float(rate_str.replace(",", "")), 0.0 on ValueError
_parse_rate(rate_str) ==
  LET plain == SelectSeq(rate_str, LAMBDA c : c # ",") IN
  IF plain = <<>> \/ \E i \in DOMAIN plain : \A j \in DOMAIN Digits : Digits[j] # plain[i]
  THEN 0
  ELSE decimal(plain)

\* rows of the API's answer (of their fields, those the conversion uses; the
\* rate is a string, here its characters): a yen row, one with a thousands
\* comma, one marked as failed, and a dollar row without a number
Rows ==
  {[result |-> 1, cur_unit |-> "JPY(100)", deal_bas_r |-> <<"9", "1", "2">>],
   [result |-> 1, cur_unit |-> "JPY(100)", deal_bas_r |-> <<"1", ",", "0", "1", "2">>],
   [result |-> 4, cur_unit |-> "JPY(100)", deal_bas_r |-> <<"9", "1", "2">>],
   [result |-> 1, cur_unit |-> "USD", deal_bas_r |-> <<"N", "A">>]}
\* what requests.get(...).json() and the loop over it give: a list of rows,
\* a RequestException (no answer, an error status), or another exception (an
\* answer that is not a list of rows)
Responses ==
  {[raised |-> e, json |-> <<>>] : e \in {"RequestException", "Exception"}}
  \cup {[raised |-> "None", json |-> rows] :
          rows \in UNION {[1..n -> Rows] : n \in 0..MaxRows}}

\* the loop of get_exchange_rates over the rows: rows with result 1 only, a
\* later row replaces an earlier one of the same currency
RECURSIVE rates_dict(_)
rates_dict(rates_data) ==
  IF rates_data = <<>> THEN EmptyDict
  ELSE LET front == rates_dict(SubSeq(rates_data, 1, Len(rates_data) - 1))
           rate == rates_data[Len(rates_data)]
       IN IF rate.result = 1
          THEN [k \in DOMAIN front \cup {rate.cur_unit} |->
                  IF k = rate.cur_unit
                  THEN [basic_rate |-> _parse_rate(rate.deal_bas_r), raw_data |-> "row"]
                  ELSE front[k]]
          ELSE front

\* _get_fallback_rate(): 100 yen = 950 won
_get_fallback_rate ==
  [k \in {"JPY(100)"} |-> [basic_rate |-> 950, raw_data |-> "None"]]

\* variant: the fallback is stored like an answer of the API
get_exchange_rates_storing_fallback(self, clock, response) ==
  LET fell == [cache |-> _get_fallback_rate, cache_timestamp |-> clock,
               ret |-> _get_fallback_rate, source |-> "fallback"]
      same == [cache |-> self.cache, cache_timestamp |-> self.cache_timestamp]
  IN
  IF self.api_key \in {"None", ""}
  THEN fell @@ [called_api |-> FALSE]
  ELSE IF /\ self.cache_timestamp # None
          /\ td_seconds(clock - self.cache_timestamp) < CacheSeconds
          /\ DOMAIN self.cache # {}
  THEN same @@ [ret |-> self.cache, source |-> "cache", called_api |-> FALSE]
  ELSE IF response.raised # "None"
  THEN fell @@ [called_api |-> TRUE]
  ELSE [cache |-> rates_dict(response.json), cache_timestamp |-> clock,
        ret |-> rates_dict(response.json), source |-> "api", called_api |-> TRUE]

\* get_exchange_rates as a function of the service's fields, the clock and
\* what the API would answer: the value returned, the fields afterwards, and
\* whether the API was called
get_exchange_rates(self, clock, response) ==
  LET same == [cache |-> self.cache, cache_timestamp |-> self.cache_timestamp] IN
  IF self.api_key \in {"None", ""}
  THEN same @@ [ret |-> _get_fallback_rate, source |-> "fallback", called_api |-> FALSE]
  ELSE IF /\ self.cache_timestamp # None
          /\ td_seconds(clock - self.cache_timestamp) < CacheSeconds
          /\ DOMAIN self.cache # {}
  THEN same @@ [ret |-> self.cache, source |-> "cache", called_api |-> FALSE]
  ELSE IF response.raised # "None"
  THEN same @@ [ret |-> _get_fallback_rate, source |-> "fallback", called_api |-> TRUE]
  ELSE [cache |-> rates_dict(response.json), cache_timestamp |-> clock,
        ret |-> rates_dict(response.json), source |-> "api", called_api |-> TRUE]

\* get_jpy_to_krw_rate, in hundredths of a won per yen
get_jpy_to_krw_rate(rates) ==
  IF "JPY(100)" \in DOMAIN rates THEN rates["JPY(100)"].basic_rate ELSE 950

\* exchange_service = ExchangeRateService()
Construct(api_key) ==
  /\ fx.phase = "none"
  /\ fx' = [phase |-> "ready", op |-> "init", api_key |-> api_key,
            cache |-> EmptyDict, cache_timestamp |-> None,
            clock |-> 0, advances |-> 0,
            ret |-> EmptyDict, source |-> "none", called_api |-> FALSE,
            api |-> "not called"]
  /\ UNCHANGED <<now, MAX_LOGIN_ATTEMPTS, ip_bans, users, login_tokens,
                 session_token, last, jwt, http, inflight, data>>

\* datetime.now() moves on by d seconds
Advance(d) ==
  /\ fx.phase = "ready"
  /\ fx.advances < MaxAdvances
  /\ fx' = [fx EXCEPT !.op = "advance", !.clock = @ + d, !.advances = @ + 1]
  /\ UNCHANGED <<now, MAX_LOGIN_ATTEMPTS, ip_bans, users, login_tokens,
                 session_token, last, jwt, http, inflight, data>>

\* exchange_service.get_exchange_rates()
GetRates(response) ==
  LET r == get_exchange_rates(fx, fx.clock, response) IN
  /\ fx.phase = "ready"
  /\ fx' = [fx EXCEPT !.op = "get_exchange_rates",
                      !.cache = r.cache, !.cache_timestamp = r.cache_timestamp,
                      !.ret = r.ret, !.source = r.source,
                      !.called_api = r.called_api,
                      !.api = IF r.called_api THEN response.raised ELSE "not called"]
  /\ UNCHANGED <<now, MAX_LOGIN_ATTEMPTS, ip_bans, users, login_tokens,
                 session_token, last, jwt, http, inflight, data>>

\* passage of time
Tick ==
  /\ now + TickMinutes <= MaxTime
  /\ now' = now + TickMinutes
  /\ last' = NoRequest
  /\ http' = NoHttp
  /\ UNCHANGED <<MAX_LOGIN_ATTEMPTS, ip_bans, users, login_tokens, session_token, jwt,
                 inflight, fx, data>>

\* Code lifecycle: every code value, requests with the allow-listed credential
\* from one address
Next ==
  \/ \E email \in AllowedSpellings, ip \in {FirstAddr} :
        \E code \in Draws(email, Codes), d \in DeliveryAttempts(email) :
           RequestCode(email, ip, code, d)
  \/ \E code \in Codes : ValidateCode(code)
  \/ Tick

Spec == Init /\ [][Next]_vars

\* AuthService.create_access_token({"user_id": id}, ttl)
IssueSession(id, ttl) ==
  /\ jwt.phase = "none"
  /\ jwt' = [phase |-> "issued", id |-> id, ttl |-> ttl, issued_at |-> now,
             token |-> create_access_token(id, ttl, now),
             forged |-> FALSE, result |-> None, verified_at |-> 0]
  /\ UNCHANGED <<now, MAX_LOGIN_ATTEMPTS, ip_bans, users, login_tokens, session_token, last, http,
                 inflight, fx, data>>

\* a client alters the token: claims re-signed under another key, or the
\* expiry pushed out under the old signature
Tamper(kind) ==
  /\ jwt.phase = "issued"
  /\ ~jwt.forged
  /\ jwt' = [jwt EXCEPT
        !.forged = TRUE,
        !.token = IF kind = "resign"
                  THEN jwt_encode(jwt.token.claims, "other-key")
                  ELSE [jwt.token EXCEPT !.claims.exp = @ + MaxTime]]
  /\ UNCHANGED <<now, MAX_LOGIN_ATTEMPTS, ip_bans, users, login_tokens, session_token, last, http,
                 inflight, fx, data>>

\* the client keeps the token of the cookie verify_login_code has set (issued
\* with the default lifetime)
HoldToken ==
  /\ jwt.phase = "none"
  /\ session_token # <<>>
  /\ jwt' = [phase |-> "issued", id |-> session_token[1].claims.user_id,
             ttl |-> <<>>,
             issued_at |-> session_token[1].claims.exp - ACCESS_TOKEN_EXPIRE_MINUTES,
             token |-> session_token[1],
             forged |-> FALSE, result |-> None, verified_at |-> 0]
  /\ UNCHANGED <<now, MAX_LOGIN_ATTEMPTS, ip_bans, users, login_tokens, session_token, last, http,
                 inflight, fx, data>>

\* AuthService.verify_token(token)
VerifySession ==
  /\ jwt.phase \in {"issued", "verified"}
  /\ jwt' = [jwt EXCEPT !.phase = "verified",
                        !.result = verify_token(jwt.token, now),
                        !.verified_at = now]
  /\ UNCHANGED <<now, MAX_LOGIN_ATTEMPTS, ip_bans, users, login_tokens, session_token, last, http,
                 inflight, fx, data>>

\* Session tokens as a function of (id, ttl, issue time, verification time)
NextToken ==
  \/ \E id \in UserIds, ttl \in Deltas : IssueSession(id, ttl)
  \/ \E kind \in {"resign", "extend"} : Tamper(kind)
  \/ VerifySession
  \/ Tick

SpecToken == Init /\ [][NextToken]_vars

\* Throttling: every credential and address, the generator held to one value,
\* no code validation
NextBan ==
  \/ \E email \in Emails, ip \in Addrs :
        \E code \in Draws(email, {FirstCode}), d \in DeliveryAttempts(email) :
           RequestCode(email, ip, code, d)
  \/ Tick

SpecBan == Init /\ [][NextBan]_vars

\* Login flow: every credential from one address, the generator held to one
\* value, validation of every code value
NextFlow ==
  \/ \E email \in Emails, ip \in {FirstAddr} :
        \E code \in Draws(email, {FirstCode}), d \in DeliveryAttempts(email) :
           RequestCode(email, ip, code, d)
  \/ \E code \in Codes : ValidateCode(code)
  \/ Tick

SpecFlow == Init /\ [][NextFlow]_vars

\* what a client can put in a carrier: nothing, the cookie the server set, or
\* a token it signed itself
ForgedToken == jwt_encode([user_id |-> 1, exp |-> 2 * MaxTime], "other-key")
Carriers == {<<>>, session_token, <<ForgedToken>>}

\* Identity lookup: one login flow and requests for the current identity
NextMe ==
  \/ \E email \in AllowedSpellings, ip \in {FirstAddr} :
        \E code \in Draws(email, {FirstCode}), d \in DeliveryAttempts(email) :
           RequestCode(email, ip, code, d)
  \/ \E code \in Codes : ValidateCode(code)
  \/ \E credentials \in Carriers, cookie \in Carriers : GetMe(credentials, cookie)
  \/ Tick

SpecMe == Init /\ [][NextMe]_vars

\* Session lifetime: the login flow from one address with every credential
\* (threshold 1, two code values, the Telegram call never failing), logout,
\* and verification of a token the client has kept
InitSession == Init /\ MAX_LOGIN_ATTEMPTS = 1

TwoCodes == {c \in Codes : c <= FirstCode + 1}

NextSession ==
  \/ \E email \in Emails, ip \in {FirstAddr} :
        \E code \in Draws(email, TwoCodes),
           d \in DeliveryAttempts(email) \cap {"delivered", "none"} :
           RequestCode(email, ip, code, d)
  \/ \E code \in TwoCodes : ValidateCode(code)
  \/ Logout
  \/ HoldToken
  \/ VerifySession
  \/ Tick

SpecSession == InitSession /\ [][NextSession]_vars

\* Credential comparison: every spelling, from one address
NextEmail ==
  \/ \E email \in Credentials, ip \in {FirstAddr} :
        \E code \in Draws(email, Codes),
           d \in DeliveryAttempts(email) \cap {"delivered", "none"} :
           RequestCode(email, ip, code, d)
  \/ Tick

SpecEmail == Init /\ [][NextEmail]_vars

\* what a request can carry: an X-Forwarded-For list, an X-Real-IP value, and
\* the peer of the connection
ForwardedValues == {<<>>} \cup { <<s>> : s \in StringsOver({"a", "b", " ", ","}, MaxHeaderLen) }
RealIpValues == {<<>>} \cup { <<s>> : s \in StringsOver({"r", " "}, MaxHeaderLen) }
ClientValues == {<<>>, << <<"c">> >>}

\* Source-address resolution as a function of the request: one request
NextAddress ==
  /\ http.op = "none"
  /\ \E forwarded_for \in ForwardedValues, real_ip \in RealIpValues,
     client \in ClientValues : ResolveAddress(forwarded_for, real_ip, client)

SpecAddress == Init /\ [][NextAddress]_vars

\* Data endpoints: one login, and writes with every combination of carriers,
\* each request answered before the next is taken up
NextData ==
  \/ http.op = "none" /\ RequestCode(ALLOWED_EMAIL, FirstAddr, FirstCode, "delivered")
  \/ http.op = "none" /\ ValidateCode(FirstCode)
  \/ /\ http.op = "none"
     /\ \E kind \in Kinds, method \in Methods :
           \E credentials \in Carriers, cookie \in Carriers :
              Mutate(kind, method, credentials, cookie)
  \/ Respond
  \/ http.op = "none" /\ Tick

SpecData == InitSession /\ [][NextData]_vars

\* Throttling per address: requests from every address, each code delivered
NextFrame ==
  \/ \E email \in Emails, ip \in Addrs :
        \E code \in Draws(email, {FirstCode}),
           d \in DeliveryAttempts(email) \cap {"delivered", "none"} :
           RequestCode(email, ip, code, d)
  \/ Tick

SpecFrame == Init /\ [][NextFrame]_vars

\* Concurrent throttling: groups of wrong-credential requests from one address
\* handled at the same time, between single requests from it and ticks
NextRace ==
  \/ \E ip \in {FirstAddr} : Arrive(ip)
  \/ \E r \in 1..MaxConcurrent : Step(r)
  \/ Settle
  \/ /\ inflight.phase = "idle"
     /\ \E email \in Emails, ip \in {FirstAddr} :
           \E code \in Draws(email, {FirstCode}),
              d \in DeliveryAttempts(email) \cap {"delivered", "none"} :
              RequestCode(email, ip, code, d)
  \/ inflight.phase = "idle" /\ Tick

SpecRace == Init /\ [][NextRace]_vars

\* The exchange-rate service: construction, calls and the clock moving by a
\* second, by just under the cache age, and by a day
ClockSteps == {1, CacheSeconds - 1, DaySeconds}

NextFx ==
  \/ \E api_key \in ApiKeys : Construct(api_key)
  \/ \E d \in ClockSteps : Advance(d)
  \/ \E response \in Responses : GetRates(response)

SpecFx == Init /\ [][NextFx]_vars

TypeOK ==
  /\ now \in 0..MaxTime
  /\ MAX_LOGIN_ATTEMPTS \in 1..MaxAttemptsCfg
  /\ DOMAIN ip_bans \subseteq Addrs
  /\ Len(users) <= 1
  /\ Len(login_tokens) <= NumCodes

\* ------------------------------------------------------------ properties
matching(email) == lower(email) = lower(ALLOWED_EMAIL)

\* a wrong-credential request from ip is the step being taken
WrongRequest(ip) ==
  /\ last'.op = "RequestCode" /\ last'.ip = ip /\ ~matching(last'.email)
  /\ RequestCode(last'.email, ip, 0, "none")

\* a matching-credential request from ip is the step being taken
MatchingRequest(ip) ==
  /\ last'.op = "RequestCode" /\ last'.ip = ip /\ matching(last'.email)
  /\ \E d \in Deliveries : RequestCode(last'.email, ip, last'.code, d)

\* a validation of code c is the step being taken
Validation(c) == last'.op = "ValidateCode" /\ last'.code = c /\ ValidateCode(c)

\* ip has a ban that has not run out
ActiveBan(ip) ==
  /\ ip \in DOMAIN ip_bans
  /\ ip_bans[ip].banned_until # None
  /\ now < ip_bans[ip].banned_until

attempts(ip) == IF ip \in DOMAIN ip_bans THEN ip_bans[ip].failed_attempts ELSE 0

\* C1: the wrong-credential request that brings an address's run of failures to
\* the threshold is answered TooManyAttempts, and every wrong-credential request
\* from an address whose ban has not run out is answered RateLimited.
C1_BanThenRateLimited ==
  [][\A ip \in Addrs : WrongRequest(ip) =>
        /\ (attempts(ip) = MAX_LOGIN_ATTEMPTS - 1 /\ ~ActiveBan(ip)
              => last'.outcome = "TooManyAttempts")
        /\ (ActiveBan(ip) => last'.outcome = "RateLimited")]_vars

\* C2: a wrong-credential request from an address with an active ban changes
\* nothing in the ban table: counter, banned_until and last_attempt stay.
C2_NoExtensionWhileBanned ==
  [][\A ip \in Addrs : (WrongRequest(ip) /\ ActiveBan(ip)) => ip_bans' = ip_bans]_vars

\* a wrong-credential request arrived during an active ban
C2_Witness ==
  /\ last.op = "RequestCode"
  /\ ~matching(last.email)
  /\ last.prior_banned_until # None
  /\ now < last.prior_banned_until
  /\ ip_bans[last.ip].banned_until = last.prior_banned_until

\* C3: a matching request deletes the address's ban record whatever its
\* counter, a record appears only through a wrong-credential request from that
\* address, and the record a wrong-credential request creates counts 1; so the
\* wrong request that follows n failures and a match counts 1, not n + 1.
C3_ResetOnSuccess ==
  [][\A ip \in Addrs :
        /\ MatchingRequest(ip) => ip \notin DOMAIN ip_bans'
        /\ (ip \notin DOMAIN ip_bans /\ ip \in DOMAIN ip_bans') => WrongRequest(ip)
        /\ (WrongRequest(ip) /\ ip \notin DOMAIN ip_bans)
              => ip_bans'[ip].failed_attempts = 1
        /\ (WrongRequest(ip) /\ last.op = "RequestCode" /\ last.ip = ip
              /\ matching(last.email))
              => ip_bans'[ip].failed_attempts = 1]_vars

\* a matching request has just cleared n >= 1 failures short of a ban
C3_Witness ==
  /\ last.op = "RequestCode"
  /\ matching(last.email)
  /\ last.prior_attempts >= 1
  /\ last.prior_banned_until = None
  /\ last.ip \notin DOMAIN ip_bans

\* C10: a matching request is never answered RateLimited, TooManyAttempts or
\* UnknownCredential, banned or not, and leaves no ban record for its address.
C10_MatchIgnoresBan ==
  [][\A ip \in Addrs : MatchingRequest(ip) =>
        /\ last'.outcome \notin {"RateLimited", "TooManyAttempts", "UnknownCredential"}
        /\ ip \notin DOMAIN ip_bans']_vars

\* a matching request arrived while its address had an active ban
C10_Witness ==
  /\ last.op = "RequestCode"
  /\ matching(last.email)
  /\ last.prior_banned_until # None
  /\ now < last.prior_banned_until
  /\ last.outcome = "Ok"
  /\ last.ip \notin DOMAIN ip_bans

\* the stored records carrying code value c
records(c) == {i \in DOMAIN login_tokens : login_tokens[i].token = c}

\* record i is neither used nor expired
valid(i) == ~login_tokens[i].is_used /\ now < login_tokens[i].expires_at

newest == Len(login_tokens)

\* C4: once a later code has been issued, validating an earlier code returns
\* empty, while validating the newest code, unused and before its expiry,
\* returns its identity.
C4_SecondCodeInvalidatesFirst ==
  [][\A c \in Codes : Validation(c) =>
        /\ (\E i \in records(c) : i < newest) => last'.user = None
        /\ (newest \in records(c) /\ valid(newest))
              => last'.user = login_tokens[newest].user_id]_vars

\* a code that was never validated and has not expired is refused because a
\* later code exists
C4_Witness ==
  /\ last.op = "ValidateCode"
  /\ last.user = None
  /\ \E i \in records(last.code) :
        /\ i < newest
        /\ login_tokens[i].used_at = None
        /\ now < login_tokens[i].expires_at

\* C5: each identity has at most one code record that is unused and unexpired.
C5_AtMostOneValidCode ==
  \A u \in DOMAIN users :
     Cardinality({i \in DOMAIN login_tokens :
                     login_tokens[i].user_id = users[u].id /\ valid(i)}) <= 1

\* two unexpired records of one identity, the older never validated, the newer valid
C5_Witness ==
  /\ newest >= 2
  /\ valid(newest)
  /\ \E i \in 1..(newest - 1) :
        /\ login_tokens[i].user_id = login_tokens[newest].user_id
        /\ login_tokens[i].used_at = None
        /\ now < login_tokens[i].expires_at

\* C6: a validation succeeds only on an unused record and marks it used, a used
\* record stays used, and a used code validates to empty; a second validation
\* of the code just accepted returns empty.
C6_SingleUse ==
  [][/\ \A c \in Codes : Validation(c) =>
           /\ last'.user # None =>
                 \E i \in records(c) : ~login_tokens[i].is_used /\ login_tokens'[i].is_used
           /\ (\A i \in records(c) : login_tokens[i].is_used) => last'.user = None
           /\ (last.op = "ValidateCode" /\ last.code = c /\ last.user # None)
                 => last'.user = None
     /\ \A i \in DOMAIN login_tokens :
           login_tokens[i].is_used =>
              i \in DOMAIN login_tokens' /\ login_tokens'[i].is_used]_vars

\* a code is refused although unexpired, because an earlier validation used it
C6_Witness ==
  /\ last.op = "ValidateCode"
  /\ last.user = None
  /\ \E i \in records(last.code) :
        /\ login_tokens[i].used_at # None
        /\ now < login_tokens[i].expires_at

\* C7: a validation succeeds only strictly before the record's expires_at, which
\* is issue time plus the 15-minute window; at or after expires_at it returns
\* empty and leaves the code records as they were.
C7_ExpiredCodeRefused ==
  [][/\ \A c \in Codes : Validation(c) =>
           /\ last'.user # None => \E i \in records(c) : now < login_tokens[i].expires_at
           /\ (\A i \in records(c) : now >= login_tokens[i].expires_at)
                 => last'.user = None /\ login_tokens' = login_tokens
     /\ \A ip \in Addrs : (MatchingRequest(ip) /\ last'.outcome = "Ok") =>
           login_tokens'[Len(login_tokens')].expires_at = now + 15]_vars

\* a never-used code is refused at or after its expiry
C7_Witness ==
  /\ last.op = "ValidateCode"
  /\ last.user = None
  /\ \E i \in records(last.code) :
        /\ ~login_tokens[i].is_used
        /\ login_tokens[i].used_at = None
        /\ now >= login_tokens[i].expires_at

\* C8: every matching request is answered Ok, delivered or not, and leaves its
\* code as the newest record, unused and unexpired.
C8_OkWhateverDelivery ==
  [][\A ip \in Addrs : MatchingRequest(ip) =>
           /\ last'.outcome = "Ok"
           /\ Len(login_tokens') >= 1
           /\ login_tokens'[Len(login_tokens')].token = last'.code
           /\ ~login_tokens'[Len(login_tokens')].is_used
           /\ now < login_tokens'[Len(login_tokens')].expires_at]_vars

\* the lifetime the caller asked for (the default when none is given)
requested_ttl(ttl) == IF ttl = <<>> THEN ACCESS_TOKEN_EXPIRE_MINUTES ELSE ttl[1]

\* C9: an issued token verifies to its identity before issue time + ttl and to
\* empty after it; a token whose signature does not verify yields empty.
C9_SessionRoundTrip ==
  jwt.phase = "verified" =>
     /\ (~jwt.forged /\ jwt.verified_at < jwt.issued_at + requested_ttl(jwt.ttl))
           => jwt.result = jwt.id
     /\ (~jwt.forged /\ jwt.verified_at > jwt.issued_at + requested_ttl(jwt.ttl))
           => jwt.result = None
     /\ jwt.forged => jwt.result = None

\* C11: a code validation, accepted or refused, leaves the ban table as it
\* was, and the ban table changes only in a code request; so refused
\* validations never turn a later request's answer into RateLimited or
\* TooManyAttempts.
C11_ValidationLeavesBans ==
  [][/\ \A c \in Codes : Validation(c) => ip_bans' = ip_bans
     /\ ip_bans' # ip_bans => last'.op = "RequestCode"]_vars

\* a code was refused while the address had failures on record, and the record
\* is still one short of the threshold
C11_Witness ==
  /\ last.op = "ValidateCode"
  /\ last.user = None
  /\ FirstAddr \in DOMAIN ip_bans
  /\ ip_bans[FirstAddr].failed_attempts = MAX_LOGIN_ATTEMPTS - 1
  /\ ip_bans[FirstAddr].banned_until = None

GoodToken(c, t) ==
  /\ c # <<>>
  /\ c[1].sig = <<SECRET_KEY, c[1].claims>>
  /\ t <= c[1].claims.exp
  /\ \E u \in DOMAIN users : users[u].id = c[1].claims.user_id /\ users[u].is_active

\* C13: GET /auth/me answers 200 with the identity whenever the cookie or the
\* bearer header holds a server-signed token of an active identity before its
\* expiry, whatever the other carrier holds, and 401 when neither does.
C13_EitherCarrier ==
  http.op = "me" =>
     /\ \A c \in {http.credentials, http.cookie} :
           (GoodToken(c, now + 1) => http.status = 200 /\ http.user = c[1].claims.user_id)
     /\ (~GoodToken(http.credentials, now) /\ ~GoodToken(http.cookie, now))
           => http.status = 401

\* C14: every POST /auth/login is answered 200 (Ok) or 400 (UnknownCredential,
\* RateLimited or TooManyAttempts), never 500.
C14_LoginNever500 ==
  last.op = "RequestCode" =>
     last.outcome \in {"Ok", "UnknownCredential", "RateLimited", "TooManyAttempts"}

\* C15: a token issued by a login verifies to its identity at every time
\* before its expiry and to empty at every time after it, whatever requests,
\* logins, logouts and bans have happened since it was issued.
C15_OnlyExpiryEndsSession ==
  (jwt.phase = "verified" /\ ~jwt.forged) =>
     /\ jwt.verified_at < jwt.token.claims.exp => jwt.result = jwt.id
     /\ jwt.verified_at > jwt.token.claims.exp => jwt.result = None

\* a kept token verifies before its expiry although the client has logged out
\* since and the address has been banned
C15_Witness ==
  /\ jwt.phase = "verified"
  /\ jwt.result = jwt.id
  /\ jwt.verified_at = now
  /\ now < jwt.token.claims.exp
  /\ session_token = <<>>
  /\ FirstAddr \in DOMAIN ip_bans
  /\ ip_bans[FirstAddr].banned_until # None

\* two characters are the same letter in either case
same_letter(a, b) ==
  a = b \/ {a, b} \in { {"m", "M"}, {"e", "E"}, {"x", "X"} }

\* two strings are equal up to the case of their letters
EqualIgnoringCase(s, t) ==
  Len(s) = Len(t) /\ \A i \in DOMAIN s : same_letter(s[i], t[i])

\* C16: a request is treated as matching (failures cleared, identity stamped,
\* no throttling answer, and a code issued with answer Ok when the drawn value
\* is not a stored one) iff its credential equals the allow-listed one up to
\* letter case; any other credential leaves identities and codes untouched
\* and is never answered Ok.
C16_MatchIgnoringCase ==
  [][last'.op = "RequestCode" =>
        IF EqualIgnoringCase(last'.email, ALLOWED_EMAIL)
        THEN /\ last'.ip \notin DOMAIN ip_bans'
             /\ Len(users') = 1
             /\ users'[1].last_login_request = now
             /\ last'.outcome \notin {"UnknownCredential", "RateLimited", "TooManyAttempts"}
             /\ records(last'.code) = {} =>
                   /\ last'.outcome = "Ok"
                   /\ Len(login_tokens') = Len(login_tokens) + 1
                   /\ login_tokens'[Len(login_tokens')].token = last'.code
        ELSE /\ login_tokens' = login_tokens
             /\ users' = users
             /\ last'.outcome # "Ok"]_vars

\* a credential that differs from the allow-listed one in case only has just
\* been issued a code
C16_Witness ==
  /\ last.op = "RequestCode"
  /\ last.email # ALLOWED_EMAIL
  /\ EqualIgnoringCase(last.email, ALLOWED_EMAIL)
  /\ last.outcome = "Ok"
  /\ newest >= 1
  /\ login_tokens[newest].token = last.code

\* r is e without its leading and trailing blanks
Trimmed(r, e) ==
  /\ \E i \in 0..Len(e) : \E j \in i..Len(e) :
        /\ r = SubSeq(e, i + 1, j)
        /\ \A k \in (1..i) \cup ((j + 1)..Len(e)) : e[k] = " "
  /\ r # <<>> => r[1] # " " /\ r[Len(r)] # " "

\* r is the first comma-separated entry of s, without surrounding blanks
FirstEntry(r, s) ==
  \E k \in 0..Len(s) :
     /\ k = Len(s) \/ s[k + 1] = ","
     /\ \A i \in 1..k : s[i] # ","
     /\ Trimmed(r, SubSeq(s, 1, k))

\* C17 as stated: the address is the first entry of X-Forwarded-For when the
\* header is present, else X-Real-IP when present, else the peer of the
\* connection when there is one, else "127.0.0.1".
C17_ResolutionOrder ==
  http.op = "client_ip" =>
     IF http.forwarded_for # <<>> THEN FirstEntry(http.result, http.forwarded_for[1])
     ELSE IF http.real_ip # <<>> THEN Trimmed(http.result, http.real_ip[1])
     ELSE IF http.client # <<>> THEN http.result = http.client[1]
     ELSE http.result = Loopback

\* a header counts when it is present and its value is not the empty string
given(header) == header # <<>> /\ header[1] # <<>>

\* C17 amended: the address is the first entry of X-Forwarded-For when the
\* header is present and not empty, else X-Real-IP when present and not empty,
\* else the peer of the connection when there is one, else "127.0.0.1".
C17_ResolutionOrderNonEmpty ==
  http.op = "client_ip" =>
     IF given(http.forwarded_for) THEN FirstEntry(http.result, http.forwarded_for[1])
     ELSE IF given(http.real_ip) THEN Trimmed(http.result, http.real_ip[1])
     ELSE IF http.client # <<>> THEN http.result = http.client[1]
     ELSE http.result = Loopback

\* an empty X-Forwarded-For header came with an X-Real-IP, which was taken
C17_Witness ==
  /\ http.op = "client_ip"
  /\ http.forwarded_for = << <<>> >>
  /\ given(http.real_ip)
  /\ http.result # <<>>
  /\ Trimmed(http.result, http.real_ip[1])

\* the step sets a banned_until for ip that its record did not have
FreshBan(ip) ==
  /\ ip \in DOMAIN ip_bans'
  /\ ip_bans'[ip].banned_until # None
  /\ (ip \in DOMAIN ip_bans => ip_bans[ip].banned_until # ip_bans'[ip].banned_until)

\* C18: a wrong-credential request from an address without an active ban is
\* answered TooManyAttempts exactly when it sets a fresh ban, a fresh ban is
\* set only when the incremented counter equals the threshold, and every
\* other such request is answered UnknownCredential.
C18_TooManyIffFreshBan ==
  [][\A ip \in Addrs : (WrongRequest(ip) /\ ~ActiveBan(ip)) =>
        /\ last'.outcome = "TooManyAttempts" <=> FreshBan(ip)
        /\ FreshBan(ip) => ip_bans'[ip].failed_attempts = MAX_LOGIN_ATTEMPTS
        /\ ~FreshBan(ip) => last'.outcome = "UnknownCredential"]_vars

\* C19: a wrong-credential request from an address whose record has a
\* banned_until is answered RateLimited exactly when it arrives strictly
\* before banned_until.
C19_BanEndsByTime ==
  [][\A ip \in Addrs :
        (WrongRequest(ip) /\ ip \in DOMAIN ip_bans /\ ip_bans[ip].banned_until # None)
        => (last'.outcome = "RateLimited" <=> now < ip_bans[ip].banned_until)]_vars

\* C20: every matching request adds exactly one code record, unused, and is
\* answered Ok, whether or not the drawn value is already stored.
C20_OneNewCodePerRequest ==
  [][\A ip \in Addrs : MatchingRequest(ip) =>
        /\ Len(login_tokens') = Len(login_tokens) + 1
        /\ ~login_tokens'[Len(login_tokens')].is_used
        /\ last'.outcome = "Ok"]_vars

\* record i is kept by the step, with its value, owner and expiry
Kept(i) ==
  /\ i \in DOMAIN login_tokens'
  /\ login_tokens'[i].id = login_tokens[i].id
  /\ login_tokens'[i].token = login_tokens[i].token
  /\ login_tokens'[i].user_id = login_tokens[i].user_id
  /\ login_tokens'[i].expires_at = login_tokens[i].expires_at

\* the step turns record i from unused to used
BecomesUsed(i) == ~login_tokens[i].is_used /\ login_tokens'[i].is_used

\* C21 as stated: a code record becomes used only in a validation of its code,
\* which stamps used_at; a used record stays used; every used record has a
\* used_at; no record is deleted.
C21_UsedOnlyByValidation ==
  [][/\ \A i \in DOMAIN login_tokens :
           /\ Kept(i)
           /\ login_tokens[i].is_used => login_tokens'[i].is_used
           /\ BecomesUsed(i) =>
                 /\ Validation(login_tokens[i].token)
                 /\ login_tokens'[i].used_at # None
     /\ \A i \in DOMAIN login_tokens' :
           login_tokens'[i].is_used => login_tokens'[i].used_at # None]_vars

\* C21 amended: a code record becomes used at most once and never unused
\* again, either in an accepted validation of its code, which stamps used_at
\* with the time of the step, or in a matching request that issues a later
\* code, which leaves used_at empty; a used_at, once set, stays; every record
\* with a used_at is used; no record is deleted.
C21_UsedByValidationOrReissue ==
  [][/\ \A i \in DOMAIN login_tokens :
           /\ Kept(i)
           /\ login_tokens[i].is_used =>
                 /\ login_tokens'[i].is_used
                 /\ login_tokens'[i].used_at = login_tokens[i].used_at
           /\ BecomesUsed(i) =>
                 \/ /\ Validation(login_tokens[i].token)
                    /\ last'.user = login_tokens[i].user_id
                    /\ login_tokens'[i].used_at = now
                 \/ /\ \E ip \in Addrs : MatchingRequest(ip)
                    /\ last'.outcome = "Ok"
                    /\ Len(login_tokens') = Len(login_tokens) + 1
                    /\ login_tokens'[i].used_at = None
     /\ \A i \in DOMAIN login_tokens' :
           login_tokens'[i].used_at # None => login_tokens'[i].is_used]_vars

\* one record was marked used by a later issuance and has no used_at, another
\* was used by a validation and has one
C21_Witness ==
  /\ \E i \in DOMAIN login_tokens :
        login_tokens[i].is_used /\ login_tokens[i].used_at = None
  /\ \E j \in DOMAIN login_tokens :
        login_tokens[j].is_used /\ login_tokens[j].used_at # None

\* C22: there is at most one identity record; it appears only in a matching
\* request, exists after every matching request, is reused by later matching
\* requests with only last_login_request rewritten, is left alone by
\* wrong-credential requests, and is never deleted.
C22_OneIdentity ==
  [][/\ Len(users') <= 1
     /\ Len(users') >= Len(users)
     /\ \A u \in DOMAIN users :
           /\ users'[u].id = users[u].id
           /\ users'[u].telegram_chat_id = users[u].telegram_chat_id
           /\ users'[u].created_at = users[u].created_at
     /\ Len(users') > Len(users) => \E ip \in Addrs : MatchingRequest(ip)
     /\ \A ip \in Addrs :
           /\ WrongRequest(ip) => users' = users
           /\ MatchingRequest(ip) =>
                 /\ Len(users') = 1
                 /\ users'[1].telegram_chat_id = TELEGRAM_CHAT_ID
                 /\ Len(users) = 1 =>
                       users' = [users EXCEPT ![1].last_login_request = now]]_vars

\* a later matching request has reused the identity created by an earlier one
C22_Witness ==
  /\ last.op = "RequestCode"
  /\ matching(last.email)
  /\ Len(users) = 1
  /\ users[1].created_at < users[1].last_login_request
  /\ users[1].last_login_request = now

\* the wrong-credential branch of verify_email_and_send_code on table bans
serial_wrong(bans, ip) ==
  LET chk == check_ip_ban(bans, ip, now) IN
  IF chk = "TypeError" THEN [outcome |-> "Error500", bans |-> bans]
  ELSE IF chk = "banned" THEN [outcome |-> "RateLimited", bans |-> bans]
  ELSE LET w == record_failed_attempt(bans, ip, now, MAX_LOGIN_ATTEMPTS) IN
       [outcome |-> IF w.ret THEN "TooManyAttempts" ELSE "UnknownCredential",
        bans |-> w.bans]

\* n wrong-credential requests from ip handled one after the other
RECURSIVE SerialRun(_, _, _)
SerialRun(bans, ip, n) ==
  IF n = 0 THEN [bans |-> bans, outcomes |-> <<>>]
  ELSE LET first == serial_wrong(bans, ip)
           rest == SerialRun(first.bans, ip, n - 1)
       IN [bans |-> rest.bans, outcomes |-> <<first.outcome>> \o rest.outcomes]

AllAnswered ==
  /\ inflight.phase = "calls"
  /\ \A r \in DOMAIN inflight.calls : inflight.calls[r].pc = "done"

\* the requests handled together leave the ban table, and get the answers, of
\* some order of handling them one after the other
SerialEquivalent ==
  AllAnswered =>
     LET serial == SerialRun(inflight.base, inflight.ip, MaxConcurrent) IN
     /\ ip_bans = serial.bans
     /\ \A o \in {"Error500", "RateLimited", "TooManyAttempts", "UnknownCredential"} :
           Cardinality({r \in DOMAIN inflight.calls : inflight.calls[r].outcome = o})
              = Cardinality({i \in DOMAIN serial.outcomes : serial.outcomes[i] = o})

\* the counter has grown by one for each request that recorded a failure
NoLostIncrement ==
  AllAnswered =>
     attempts(inflight.ip) =
        (IF inflight.ip \in DOMAIN inflight.base
         THEN inflight.base[inflight.ip].failed_attempts ELSE 0)
        + Cardinality({r \in DOMAIN inflight.calls :
                          inflight.calls[r].outcome \in {"TooManyAttempts", "UnknownCredential"}})

\* at most one request inserted a row, and none when the address had one
NoSecondRecord ==
  AllAnswered =>
     /\ Cardinality({r \in DOMAIN inflight.calls : inflight.calls[r].inserted}) <= 1
     /\ inflight.ip \in DOMAIN inflight.base =>
           \A r \in DOMAIN inflight.calls : ~inflight.calls[r].inserted

\* C23: wrong-credential requests from one address handled at the same time
\* leave the state of some serial order: no increment is lost, no second ban
\* record is created, and the request that brings the counter to the
\* threshold sets the ban.
C23_ConcurrentAsSerial ==
  /\ SerialEquivalent
  /\ NoLostIncrement
  /\ NoSecondRecord
  /\ AllAnswered =>
        \A r \in DOMAIN inflight.calls :
           inflight.calls[r].wrote = MAX_LOGIN_ATTEMPTS => inflight.calls[r].set_ban

\* a call of get_exchange_rates with the key configured
RatesCall == fx.phase = "ready" /\ fx'.op = "get_exchange_rates" /\ fx.api_key = "key"
\* the age of the cache at a call, in seconds
age == fx.clock - fx.cache_timestamp

\* C24: the cached rates are returned without an API call only when the cache
\* is non-empty and less than 300 seconds old; at every age of 300 seconds or
\* more, ages of more than a day included, the API is called again.
C24_CacheOnlyWhenFresh ==
  [][RatesCall =>
       /\ fx'.source = "cache" =>
             /\ DOMAIN fx.cache # {}
             /\ fx.cache_timestamp # None
             /\ td_total_seconds(age) < CacheSeconds
       /\ (fx.cache_timestamp # None /\ td_total_seconds(age) >= CacheSeconds) =>
             fx'.called_api]_vars

\* a call of get_exchange_rates without a key, or whose API call raised
FailedCall ==
  /\ fx.phase = "ready"
  /\ fx'.op = "get_exchange_rates"
  /\ \/ fx.api_key \in {"None", ""}
     \/ fx'.api \in {"RequestException", "Exception"}

\* C25: when the API key is missing or the API call fails (raises),
\* get_exchange_rates returns the fixed fallback, JPY(100) at a basic rate of
\* 950, which is 9.5 won per yen, and leaves the cache and its timestamp as
\* they were; the fallback is never in the cache, so that a later call the
\* API answers returns the API's rates.
C25_FallbackNotCached ==
  [][
      /\ FailedCall =>
          /\ fx'.ret = _get_fallback_rate
          /\ fx'.ret["JPY(100)"].basic_rate = 950
          /\ get_jpy_to_krw_rate(fx'.ret) = 950
          /\ fx'.cache = fx.cache
          /\ fx'.cache_timestamp = fx.cache_timestamp
      /\ fx'.phase = "ready" =>
          /\ fx'.cache # _get_fallback_rate
          /\ \A k \in DOMAIN fx'.cache : fx'.cache[k].raw_data = "row"
      /\ (fx.phase = "ready" /\ fx'.op = "get_exchange_rates" /\ fx'.api = "None") =>
          \A k \in DOMAIN fx'.ret : fx'.ret[k].raw_data = "row"
    ]_vars

\* a call fell back while the cache held rates fetched earlier
C25_Witness ==
  /\ fx.phase = "ready"
  /\ fx.op = "get_exchange_rates"
  /\ fx.api = "RequestException"
  /\ fx.ret = _get_fallback_rate
  /\ "JPY(100)" \in DOMAIN fx.cache
  /\ fx.cache["JPY(100)"].basic_rate = 912

\* the step hands out a session token
SessionIssued == session_token' # <<>> /\ session_token' # session_token

\* C26: a code record is created only by a request whose credential matched;
\* a session token is issued only by a validation that found an unused,
\* unexpired record of the submitted code; a wrong-credential request,
\* whatever its answer, leaves the identity and code records as they were.
C26_NoStepSkipped ==
  [][
      /\ Len(login_tokens') > Len(login_tokens) =>
            /\ \E ip \in Addrs : MatchingRequest(ip)
            /\ Len(users') = 1
            /\ login_tokens'[Len(login_tokens')].user_id = users'[1].id
      /\ (SessionIssued \/ last'.outcome = "LoginSuccessful") =>
            \E c \in Codes :
               /\ Validation(c)
               /\ \E i \in records(c) :
                     /\ valid(i)
                     /\ last'.user = login_tokens[i].user_id
                     /\ session_token' = <<create_access_token(last'.user, <<>>, now)>>
      /\ \A ip \in Addrs :
            WrongRequest(ip) => users' = users /\ login_tokens' = login_tokens
    ]_vars

\* a code was requested, a wrong-credential request followed, and the code
\* was then validated into a session
C26_Witness ==
  /\ last.op = "ValidateCode"
  /\ last.outcome = "LoginSuccessful"
  /\ session_token # <<>>
  /\ FirstAddr \in DOMAIN ip_bans
  /\ \E i \in DOMAIN login_tokens :
        login_tokens[i].token = last.code /\ login_tokens[i].used_at = now

\* C27: whatever the threshold, a ban record has a banned_until exactly when
\* its counter has reached the threshold, and after a request answered
\* TooManyAttempts the record of its address carries a ban until the time of
\* the request plus the ban duration.
C27_BannedIffThreshold ==
  /\ \A ip \in DOMAIN ip_bans :
        ip_bans[ip].banned_until # None
           <=> ip_bans[ip].failed_attempts >= MAX_LOGIN_ATTEMPTS
  /\ (last.op = "RequestCode" /\ last.outcome = "TooManyAttempts") =>
        /\ last.ip \in DOMAIN ip_bans
        /\ ip_bans[last.ip].banned_until = now + BAN_DURATION_MINUTES

\* C28: a request from address a, whatever its credential and its answer,
\* neither creates nor changes nor deletes the ban record of another address.
C28_OtherAddressUntouched ==
  [][\A a \in Addrs :
        (WrongRequest(a) \/ MatchingRequest(a)) =>
           \A b \in Addrs \ {a} :
              /\ b \in DOMAIN ip_bans' <=> b \in DOMAIN ip_bans
              /\ b \in DOMAIN ip_bans => ip_bans'[b] = ip_bans[b]]_vars

\* a matching request has deleted the record of its address while another
\* address keeps a record with a ban
C28_Witness ==
  /\ last.op = "RequestCode"
  /\ matching(last.email)
  /\ last.prior_attempts > 0
  /\ last.ip \notin DOMAIN ip_bans
  /\ \E b \in DOMAIN ip_bans : b # last.ip /\ ip_bans[b].banned_until # None

\* the ban of ip's record has run out
ExpiredBan(ip) ==
  /\ ip \in DOMAIN ip_bans
  /\ ip_bans[ip].banned_until # None
  /\ ~ActiveBan(ip)

\* C29: the counter of an address changes only in requests from that address:
\* a wrong-credential request made while no ban is active adds exactly one to
\* it, nothing lowers it, and it goes away only when a matching request
\* deletes the record; so the first wrong-credential request after a ban has
\* run out sets a new ban of the ban duration.
C29_CounterOnlyGrows ==
  [][\A ip \in Addrs :
        /\ attempts(ip)' # attempts(ip) => WrongRequest(ip) \/ MatchingRequest(ip)
        /\ attempts(ip)' < attempts(ip) =>
              MatchingRequest(ip) /\ ip \notin DOMAIN ip_bans'
        /\ (WrongRequest(ip) /\ ~ActiveBan(ip)) => attempts(ip)' = attempts(ip) + 1
        /\ (WrongRequest(ip) /\ ExpiredBan(ip)) =>
              ip_bans'[ip].banned_until = now + BAN_DURATION_MINUTES]_vars

\* a write request to a data endpoint is the step being taken
MutateStep ==
  /\ http'.op = "mutate"
  /\ Mutate(http'.kind, http'.method, http'.credentials, http'.cookie)

\* C30: a data endpoint that writes changes the stored records only for a
\* request that carries a server-signed token, not past its expiry, of an
\* existing active identity; a request that carries none is answered 401 and
\* leaves every stored record as it was.
C30_WritesNeedSession ==
  [][
      /\ data' # data =>
            /\ MutateStep
            /\ http'.status = 200
      /\ (MutateStep /\ http'.status # 401) =>
            /\ GoodToken(http'.credentials, now) \/ GoodToken(http'.cookie, now)
            /\ \E u \in DOMAIN users : users[u].id = http'.user /\ users[u].is_active
      /\ (MutateStep /\ ~GoodToken(http'.credentials, now)
                     /\ ~GoodToken(http'.cookie, now)) =>
            /\ http'.status = 401
            /\ data' = data
    ]_vars

\* a write was refused with 401 with a record stored, after the session
\* token that stored it had expired
C30_Witness ==
  /\ http.op = "mutate"
  /\ http.status = 401
  /\ http.cookie = session_token
  /\ session_token # <<>>
  /\ http.credentials = <<>>
  /\ \E k \in Kinds : data[k] = "updated"

====
